---- MODULE Spec2Model ----
(***************************************************************************)
(* The collections generated by the aossoa! macro (src/src/lib.rs) for the *)
(* schema of the crate's own tests and documentation:                      *)
(*     struct Rgb { r: u8, g: u8, b: u8 }                                  *)
(* An array-of-structs collection (one Vec<Rgb>) and a struct-of-arrays    *)
(* collection (one Vec<u8> per field) are driven by the same calls, as the *)
(* crate's test drives them, together with one iterator over each.         *)
(***************************************************************************)
EXTENDS Integers, Sequences, FiniteSets, TLC

\* ------------------------------------------------------------------ bounds
\* Longest collection the model builds (push and from_iter stop there).
MaxLen == 2
\* Largest argument given to with_capacity, reserve; truncate, get and
\* get_mut are tried up to MaxLen + MaxArg.
MaxArg == 1
\* usize::MAX, scaled down so that the iterator's index can reach it.
UsizeMax == 4
\* Steps of one iterator past the wrap of its index.
MaxOver == 1
\* Successful pushes made while the pushes are recorded.
MaxPushes == 3

\* ------------------------------------------------------------------ schema
\* $( $field_name : $field_ty , )* of the Rgb schema, in declaration order.
Fields == <<"r", "g", "b">>
FieldSet == {Fields[i] : i \in 1..Len(Fields)}
\* The operations never inspect a field's value: two values per field are
\* enough to tell every slot of every buffer from every other.
FieldVals == {0, 1}
\* pub struct $name { $( $field_name : $field_ty , )* }
Records == [FieldSet -> FieldVals]
\* size_of::<$field_ty>() of the fields of Rgb, which Vec's growth reads.
FieldSize == [f \in FieldSet |-> 1]
\* The sizes tried for the fields of other schemas: those of u8 and u32.
FieldSizes == {1, 4}

\* ------------------------------------------------------------------- state
VARIABLES
    aos,       \* the $aos_name collection
    soa,       \* the $soa_name collection
    pending,   \* the input sequence not yet given to from_iter, as an Option
    op,        \* the last call made on the two collections
    arg,       \* its arguments
    aosRet,    \* what it returned on the AoS collection
    soaRet,    \* what it returned on the SoA collection
    before,    \* <<len() of the AoS, len() of the SoA>> when it was made
    capBefore, \* <<capacity() of the AoS, of the SoA>> when it was made
    itLive,    \* an iterator over each collection is live (borrows it)
    itSteps,   \* next() calls made on the live iterators
    aosIt,     \* the iterator over the AoS collection
    soaIt,     \* the iterator over the SoA collection
    panicked,  \* the thread panicked
    fieldSize, \* size_of::<$field_ty>() of each field of the schema in use
    pushLog    \* the successful pushes so far, each with the Record passed
               \* and len() when it was made, as an Option: None when the
               \* pushes are not recorded

vars == <<aos, soa, pending, op, arg, aosRet, soaRet, before, capBefore,
          itLive, itSteps, aosIt, soaIt, panicked, fieldSize, pushLog>>

\* size_of::<$name>() for the schema in use, padding aside (Vec's growth
\* reads only whether it is 1, at most 1024, or more).
RECURSIVE SumSizes(_)
SumSizes(n) == IF n = 0 THEN 0 ELSE fieldSize[Fields[n]] + SumSizes(n - 1)
RecordSize == SumSizes(Len(Fields))

\* Option<T>: None, Some(x).
None == <<>>
Some(x) == <<x>>
IsSome(o) == o # <<>>
Unwrap(o) == o[1]

Max(a, b) == IF a >= b THEN a ELSE b

\* --------------------------------------------------------------------- Vec
\* A Vec<T> is its elements and its capacity.
\* Vec::with_capacity(capacity)
VecWithCapacity(capacity) == [items |-> <<>>, cap |-> capacity]

\* The smallest capacity Vec's amortized growth allocates for an element size.
MinNonZeroCap(esz) == IF esz = 1 THEN 8 ELSE IF esz <= 1024 THEN 4 ELSE 1

\* Vec's amortized growth to hold at least `required` elements.
GrowAmortized(v, required, esz) ==
    [v EXCEPT !.cap = Max(MinNonZeroCap(esz), Max(2 * v.cap, required))]

\* A reserve that sets the capacity to exactly len + additional.
VecReserveToFit(v, additional, esz) ==
    [v EXCEPT !.cap = Len(v.items) + additional]

\* Vec::reserve(additional)
VecReserve(v, additional, esz) ==
    IF v.cap - Len(v.items) >= additional
    THEN v
    ELSE GrowAmortized(v, Len(v.items) + additional, esz)

\* A truncate that keeps one element fewer than asked.
VecTruncateOffByOne(v, len) ==
    IF len > Len(v.items)
    THEN v
    ELSE [v EXCEPT !.items = SubSeq(v.items, 1, len - 1)]

\* A truncate that keeps the last len elements instead of the first.
VecTruncateFront(v, len) ==
    IF len >= Len(v.items)
    THEN v
    ELSE [v EXCEPT !.items = SubSeq(v.items, Len(v.items) - len + 1, Len(v.items))]

\* Vec::truncate(len)
VecTruncate(v, len) ==
    IF len >= Len(v.items)
    THEN v
    ELSE [v EXCEPT !.items = SubSeq(v.items, 1, len)]

\* A push that appends without growing the capacity.
VecPushNoGrow(v, value, esz) == [v EXCEPT !.items = Append(v.items, value)]

\* Vec::push(value)
VecPush(v, value, esz) ==
    LET g == IF Len(v.items) = v.cap
             THEN GrowAmortized(v, Len(v.items) + 1, esz)
             ELSE v
    IN  [g EXCEPT !.items = Append(g.items, value)]

\* A pop that removes and returns the first element.
VecPopFront(v) ==
    IF Len(v.items) = 0
    THEN [vec |-> v, ret |-> None]
    ELSE [vec |-> [v EXCEPT !.items = Tail(v.items)], ret |-> Some(v.items[1])]

\* Vec::pop(): the vector afterwards and the Option returned.
VecPop(v) ==
    IF Len(v.items) = 0
    THEN [vec |-> v, ret |-> None]
    ELSE [vec |-> [v EXCEPT !.items = SubSeq(v.items, 1, Len(v.items) - 1)],
          ret |-> Some(v.items[Len(v.items)])]

\* Vec::get(idx) / Vec::get_mut(idx): a reference to slot idx, or None.
\* A reference is modelled by the slot it addresses.
VecGet(v, idx) == IF idx < Len(v.items) THEN Some(idx) ELSE None

\* --------------------------------------------------------------------- AoS
\* pub struct $aos_name(Vec<$name>): the state of an AoS collection is its Vec.

\* $aos_name::with_capacity
AosWithCapacity(capacity) == VecWithCapacity(capacity)

\* $aos_name::capacity
AosCapacity(a) == a.cap

\* $aos_name::reserve
AosReserve(a, additional) == VecReserve(a, additional, RecordSize)

\* $aos_name::truncate
AosTruncate(a, len) == VecTruncate(a, len)

AosPushFront(a, value) ==
    [VecPush(a, value, RecordSize) EXCEPT !.items = <<value>> \o a.items]

\* $aos_name::push
AosPush(a, value) == VecPush(a, value, RecordSize)

\* $aos_name::pop: the collection afterwards and the Option<$name> returned.
AosPop(a) == [aos |-> VecPop(a).vec, ret |-> VecPop(a).ret]

\* $aos_name::len
AosLen(a) == Len(a.items)

\* $aos_name::get: Some($aos_ref_name { r }) with r the borrow of slot idx.
AosGet(a, idx) == VecGet(a, idx)

\* $aos_name::get_mut
AosGetMut(a, idx) == VecGet(a, idx)

\* $ref_trait_name for $aos_ref_name / $aos_ref_mut_name: &self.r.$field_name
AosRefField(a, ref, f) == a.items[ref + 1][f]

\* A write that lands in the first field whichever accessor is called.
AosMutSetFirstField(a, ref, f, v) == [a EXCEPT !.items[ref + 1][Fields[1]] = v]

\* $ref_mut_trait_name for $aos_ref_mut_name, written through:
\* *m.$field_name() = v
AosMutSet(a, ref, f, v) == [a EXCEPT !.items[ref + 1][f] = v]

\* --------------------------------------------------------------------- SoA
\* pub struct $soa_name { $( $field_name : Vec<$field_ty> , )* }: the state
\* of a SoA collection is one Vec per field.

\* $soa_name::with_capacity
SoaWithCapacity(capacity) == [f \in FieldSet |-> VecWithCapacity(capacity)]

\* $soa_name::capacity: the first repetition returns.
SoaCapacity(s) == s[Fields[1]].cap

\* $soa_name::reserve
SoaReserve(s, additional) ==
    [f \in FieldSet |-> VecReserve(s[f], additional, fieldSize[f])]

\* A truncate that shortens only the first field's buffer.
SoaTruncateFirstOnly(s, len) ==
    [f \in FieldSet |-> IF f = Fields[1] THEN VecTruncate(s[f], len) ELSE s[f]]

\* $soa_name::truncate
SoaTruncate(s, len) == [f \in FieldSet |-> VecTruncate(s[f], len)]

\* A push that appends to the first field's buffer only.
SoaPushFirstOnly(s, value) ==
    [f \in FieldSet |->
        IF f = Fields[1] THEN VecPush(s[f], value[f], fieldSize[f]) ELSE s[f]]

\* A push that appends the last field's value to every buffer.
SoaPushLastField(s, value) ==
    [f \in FieldSet |-> VecPush(s[f], value[Fields[Len(Fields)]], fieldSize[f])]

\* $soa_name::push
SoaPush(s, value) == [f \in FieldSet |-> VecPush(s[f], value[f], fieldSize[f])]

\* $soa_name::len: the first repetition returns.
SoaLen(s) == Len(s[Fields[1]].items)

\* The position in the struct literal of $soa_name::pop of the first field
\* whose pop().unwrap() panics (past the last field when none does).
FirstEmptyField(s) ==
    LET empty == {i \in 1..Len(Fields) : Len(s[Fields[i]].items) = 0}
    IN  IF empty = {} THEN Len(Fields) + 1
        ELSE CHOOSE i \in empty : \A j \in empty : i <= j

\* A pop whose emptiness test is self.len() <= 1.
SoaPopOffByOne(s) ==
    IF SoaLen(s) <= 1
    THEN [soa |-> s, ret |-> None, panic |-> FALSE]
    ELSE [soa |-> [f \in FieldSet |-> VecPop(s[f]).vec],
          ret |-> Some([f \in FieldSet |-> Unwrap(VecPop(s[f]).ret)]),
          panic |-> FALSE]

\* $soa_name::pop: the collection afterwards, the Option<$name> returned, and
\* whether an unwrap() panicked (the fields before it are popped by then).
SoaPop(s) ==
    IF SoaLen(s) = 0
    THEN [soa |-> s, ret |-> None, panic |-> FALSE]
    ELSE LET stop == FirstEmptyField(s)
         IN  [soa |-> [f \in FieldSet |->
                          IF \E i \in 1..Len(Fields) : Fields[i] = f /\ i < stop
                          THEN VecPop(s[f]).vec ELSE s[f]],
              ret |-> IF stop > Len(Fields)
                      THEN Some([f \in FieldSet |-> Unwrap(VecPop(s[f]).ret)])
                      ELSE None,
              panic |-> stop <= Len(Fields)]

\* A get whose bounds check is idx > self.len().
SoaGetOffByOne(s, idx) == IF idx > SoaLen(s) THEN None ELSE Some(idx)

\* $soa_name::get: Some($soa_ref_name { soa: self, idx }).
SoaGet(s, idx) == IF idx >= SoaLen(s) THEN None ELSE Some(idx)

\* $soa_name::get_mut
SoaGetMut(s, idx) == IF idx >= SoaLen(s) THEN None ELSE Some(idx)

\* $ref_trait_name for $soa_ref_name / $soa_ref_mut_name:
\* &self.soa.$field_name[self.idx]; None when the indexing panics.
SoaRefField(s, ref, f) ==
    IF ref < Len(s[f].items) THEN Some(s[f].items[ref + 1]) ELSE None

\* A write that lands in slot idx of every field's buffer.
SoaMutSetAllFields(s, ref, f, v) ==
    [g \in FieldSet |->
        IF ref < Len(s[g].items) THEN [s[g] EXCEPT !.items[ref + 1] = v] ELSE s[g]]

\* $ref_mut_trait_name for $soa_ref_mut_name, written through:
\* *m.$field_name() = v (the collection is untouched when the indexing panics).
SoaMutSet(s, ref, f, v) ==
    IF ref < Len(s[f].items) THEN [s EXCEPT ![f].items[ref + 1] = v] ELSE s

\* ----------------------------------------------------------- FromIterator
\* for x in iter { me.push(x); }
RECURSIVE AosExtend(_, _)
AosExtend(me, iter) ==
    IF iter = <<>> THEN me ELSE AosExtend(AosPush(me, Head(iter)), Tail(iter))

\* A from_iter that pushes the input last to first.
RECURSIVE SoaExtendReversed(_, _)
SoaExtendReversed(me, iter) ==
    IF iter = <<>> THEN me
    ELSE SoaPush(SoaExtendReversed(me, Tail(iter)), Head(iter))

RECURSIVE SoaExtend(_, _)
SoaExtend(me, iter) ==
    IF iter = <<>> THEN me ELSE SoaExtend(SoaPush(me, Head(iter)), Tail(iter))

\* FromIterator<$name> for $aos_name: let mut me = Self::new(); ...; me
AosFromIter(iter) == AosExtend(AosWithCapacity(0), iter)

\* FromIterator<$name> for $soa_name
SoaFromIter(iter) == SoaExtend(SoaWithCapacity(0), iter)

\* ---------------------------------------------------------------- Iterator
\* $iterator_struct_name { collection: &self, index: 0 }, with the references
\* it has yielded so far and what its last next() returned.
NewIter == [index |-> 0, out |-> <<>>, ret |-> None]

\* A next() that advances the index by two.
IterStepSkip(it, value) ==
    [index |-> (it.index + 2) % (UsizeMax + 1),
     out   |-> IF IsSome(value) THEN Append(it.out, Unwrap(value)) ELSE it.out,
     ret   |-> value]

\* Iterator::next, given value = self.collection.get(self.index):
\* self.index += 1 (wrapping at usize::MAX in a build without overflow
\* checks); value.
IterStep(it, value) ==
    [index |-> (it.index + 1) % (UsizeMax + 1),
     out   |-> IF IsSome(value) THEN Append(it.out, Unwrap(value)) ELSE it.out,
     ret   |-> value]

\* Sequences of Records of length at most n.
SeqsUpTo(n) == UNION {[1..k -> Records] : k \in 0..n}

\* Arguments tried for a capacity, and for a length or an index.
CapArgs == 0..MaxArg
IdxArgs == 0..(MaxLen + MaxArg)

iterVars == <<itLive, itSteps, aosIt, soaIt>>

\* The calls that make new collections.
Constructors == {"from_iter", "new", "with_capacity"}

\* The call returns; its name, arguments and results are recorded, with the
\* lengths the collections had when it was made, and the capacities of the
\* collections it was made on.
\* The pushes recorded after call o with arguments a: push appends one,
\* from_iter makes a new collection and pushes each item of its input, new and
\* with_capacity make a new collection.
Pushed(o, a) ==
    CASE o = "push" ->
           Append(Unwrap(pushLog), [rec |-> a[1], at |-> AosLen(aos)])
      [] o = "from_iter" ->
           [i \in 1..Len(Unwrap(a)) |-> [rec |-> Unwrap(a)[i], at |-> i - 1]]
      [] o \in {"new", "with_capacity"} -> <<>>
      [] OTHER -> Unwrap(pushLog)

Returns(o, a, ra, rs) ==
    /\ op' = o /\ arg' = a /\ aosRet' = ra /\ soaRet' = rs
    /\ before' = <<AosLen(aos), SoaLen(soa)>>
    /\ capBefore' = IF o \in Constructors THEN <<0, 0>>
                    ELSE <<AosCapacity(aos), SoaCapacity(soa)>>
    /\ fieldSize' = fieldSize
    /\ pushLog' = IF pushLog = None THEN None ELSE Some(Pushed(o, a))

\* No iterator borrows the collections, so &mut self can be taken.
CanMutate == ~panicked /\ pending = None /\ ~itLive
CanRead == ~panicked /\ pending = None

\* The program starts with an input sequence in hand and two collections
\* made by new(), which is with_capacity(0).
Start ==
    /\ aos = AosWithCapacity(0)
    /\ soa = SoaWithCapacity(0)
    /\ pending \in {Some(in) : in \in SeqsUpTo(MaxLen)}
    /\ op = "init"
    /\ arg = <<>>
    /\ aosRet = None
    /\ soaRet = None
    /\ before = <<0, 0>>
    /\ capBefore = <<0, 0>>
    /\ itLive = FALSE
    /\ itSteps = 0
    /\ aosIt = NewIter
    /\ soaIt = NewIter
    /\ panicked = FALSE

\* The collections generated for the Rgb schema.
Init == Start /\ fieldSize = FieldSize /\ pushLog = None

\* The collections generated for a schema of three fields of any of the
\* sizes tried.
InitMixed == Start /\ fieldSize \in [FieldSet -> FieldSizes] /\ pushLog = None

\* Two empty collections of the Rgb schema (from_iter of no items), with the
\* pushes made on them recorded.
InitLog ==
    /\ Start /\ pending = Some(<<>>)
    /\ fieldSize = FieldSize
    /\ pushLog = Some(<<>>)

\* from_iter(iter): consumes the input sequence.
FromIter ==
    /\ ~panicked /\ pending # None
    /\ aos' = AosFromIter(Unwrap(pending))
    /\ soa' = SoaFromIter(Unwrap(pending))
    /\ pending' = None
    /\ Returns("from_iter", pending, None, None)
    /\ UNCHANGED <<iterVars, panicked>>

\* new(): Self::with_capacity(0)
New ==
    /\ CanMutate
    /\ aos' = AosWithCapacity(0)
    /\ soa' = SoaWithCapacity(0)
    /\ Returns("new", <<>>, None, None)
    /\ UNCHANGED <<pending, iterVars, panicked>>

WithCapacity(capacity) ==
    /\ CanMutate
    /\ aos' = AosWithCapacity(capacity)
    /\ soa' = SoaWithCapacity(capacity)
    /\ Returns("with_capacity", <<capacity>>, None, None)
    /\ UNCHANGED <<pending, iterVars, panicked>>

Reserve(additional) ==
    /\ CanMutate
    /\ aos' = AosReserve(aos, additional)
    /\ soa' = SoaReserve(soa, additional)
    /\ Returns("reserve", <<additional>>, None, None)
    /\ UNCHANGED <<pending, iterVars, panicked>>

Truncate(len) ==
    /\ CanMutate
    /\ aos' = AosTruncate(aos, len)
    /\ soa' = SoaTruncate(soa, len)
    /\ Returns("truncate", <<len>>, None, None)
    /\ UNCHANGED <<pending, iterVars, panicked>>

\* clear(): self.truncate(0)
Clear ==
    /\ CanMutate
    /\ aos' = AosTruncate(aos, 0)
    /\ soa' = SoaTruncate(soa, 0)
    /\ Returns("clear", <<>>, None, None)
    /\ UNCHANGED <<pending, iterVars, panicked>>

Push(value) ==
    /\ CanMutate
    /\ AosLen(aos) < MaxLen
    /\ pushLog # None => Len(Unwrap(pushLog)) < MaxPushes
    /\ aos' = AosPush(aos, value)
    /\ soa' = SoaPush(soa, value)
    /\ Returns("push", <<value>>, None, None)
    /\ UNCHANGED <<pending, iterVars, panicked>>

\* pop(); the argument of a push it follows at once is kept next to its
\* result.
Pop ==
    /\ CanMutate
    /\ aos' = AosPop(aos).aos
    /\ soa' = SoaPop(soa).soa
    /\ panicked' = SoaPop(soa).panic
    /\ Returns("pop", IF op = "push" THEN arg ELSE <<>>,
               AosPop(aos).ret, SoaPop(soa).ret)
    /\ UNCHANGED <<pending, iterVars>>

Get(idx) ==
    /\ CanRead
    /\ Returns("get", <<idx>>, AosGet(aos, idx), SoaGet(soa, idx))
    /\ UNCHANGED <<aos, soa, pending, iterVars, panicked>>

GetMut(idx) ==
    /\ CanMutate
    /\ Returns("get_mut", <<idx>>, AosGetMut(aos, idx), SoaGetMut(soa, idx))
    /\ UNCHANGED <<aos, soa, pending, iterVars, panicked>>

\* if let Some(mut m) = c.get_mut(idx) { *m.f() = v; }
Write(idx, f, v) ==
    /\ CanMutate
    /\ aos' = IF IsSome(AosGetMut(aos, idx))
              THEN AosMutSet(aos, Unwrap(AosGetMut(aos, idx)), f, v) ELSE aos
    /\ soa' = IF IsSome(SoaGetMut(soa, idx))
              THEN SoaMutSet(soa, Unwrap(SoaGetMut(soa, idx)), f, v) ELSE soa
    /\ panicked' = /\ IsSome(SoaGetMut(soa, idx))
                   /\ ~IsSome(SoaRefField(soa, Unwrap(SoaGetMut(soa, idx)), f))
    /\ Returns("write", <<idx, f, v>>, AosGetMut(aos, idx), SoaGetMut(soa, idx))
    /\ UNCHANGED <<pending, iterVars>>

\* iter()
Iter ==
    /\ CanMutate
    /\ itLive' = TRUE
    /\ itSteps' = 0
    /\ aosIt' = NewIter
    /\ soaIt' = NewIter
    /\ Returns("iter", <<>>, None, None)
    /\ UNCHANGED <<aos, soa, pending, panicked>>

\* next() on each iterator, in a build without overflow checks.
IterNext ==
    /\ CanRead /\ itLive
    /\ itSteps < UsizeMax + 1 + MaxOver
    /\ itSteps' = itSteps + 1
    /\ aosIt' = IterStep(aosIt, AosGet(aos, aosIt.index))
    /\ soaIt' = IterStep(soaIt, SoaGet(soa, soaIt.index))
    /\ Returns("next", <<>>, AosGet(aos, aosIt.index), SoaGet(soa, soaIt.index))
    /\ UNCHANGED <<aos, soa, pending, itLive, panicked>>

\* next() with index == usize::MAX in a build with overflow checks:
\* self.index += 1 panics.
IterNextOverflow ==
    /\ CanRead /\ itLive
    /\ aosIt.index = UsizeMax
    /\ panicked' = TRUE
    /\ Returns("next", <<>>, None, None)
    /\ UNCHANGED <<aos, soa, pending, iterVars>>

\* The iterators go out of scope.
IterDrop ==
    /\ CanRead /\ itLive
    /\ itLive' = FALSE
    /\ itSteps' = 0
    /\ aosIt' = NewIter
    /\ soaIt' = NewIter
    /\ Returns("drop", <<>>, None, None)
    /\ UNCHANGED <<aos, soa, pending, panicked>>

Next ==
    \/ FromIter
    \/ New
    \/ \E capacity \in CapArgs : WithCapacity(capacity)
    \/ \E additional \in CapArgs : Reserve(additional)
    \/ \E len \in IdxArgs : Truncate(len)
    \/ Clear
    \/ \E value \in Records : Push(value)
    \/ Pop
    \/ \E idx \in IdxArgs : Get(idx)
    \/ \E idx \in IdxArgs : GetMut(idx)
    \/ \E idx \in IdxArgs, f \in FieldSet, v \in FieldVals : Write(idx, f, v)
    \/ Iter
    \/ IterNext
    \/ IterNextOverflow
    \/ IterDrop

\* The fields a SoA method has dealt with when it reaches the k-th.
FieldsBefore(k) == {Fields[i] : i \in 1..(k - 1)}

\* push(value) on the SoA collection, with the growth of the k-th field's
\* buffer failing by a panic (capacity overflow, or an allocation error
\* handler that panics): self.$field_name.push(..) has run for the fields
\* before it, and the panic unwinds out of push.
PushFails(value, k) ==
    /\ CanMutate
    /\ SoaLen(soa) < MaxLen
    /\ Len(soa[Fields[k]].items) = soa[Fields[k]].cap
    /\ soa' = [f \in FieldSet |->
                  IF f \in FieldsBefore(k)
                  THEN VecPush(soa[f], value[f], fieldSize[f]) ELSE soa[f]]
    /\ panicked' = TRUE
    /\ Returns("push_panic", <<value>>, None, None)
    /\ UNCHANGED <<aos, pending, iterVars>>

\* reserve(additional) on the SoA collection, with the growth of the k-th
\* field's buffer failing by a panic.
ReserveFails(additional, k) ==
    /\ CanMutate
    /\ soa[Fields[k]].cap - Len(soa[Fields[k]].items) < additional
    /\ soa' = [f \in FieldSet |->
                  IF f \in FieldsBefore(k)
                  THEN VecReserve(soa[f], additional, fieldSize[f]) ELSE soa[f]]
    /\ panicked' = TRUE
    /\ Returns("reserve_panic", <<additional>>, None, None)
    /\ UNCHANGED <<aos, pending, iterVars>>

\* The calls of Next, and those in which storage growth fails.
NextFail ==
    \/ Next
    \/ \E value \in Records, k \in 1..Len(Fields) : PushFails(value, k)
    \/ \E additional \in CapArgs, k \in 1..Len(Fields) :
          ReserveFails(additional, k)

Spec == Init /\ [][Next]_vars

SpecMixed == InitMixed /\ [][Next]_vars

SpecFail == Init /\ [][NextFail]_vars

\* push, pop and truncate on collections that start empty: no element is
\* altered through a mutable reference.
NextLog ==
    \/ FromIter
    \/ \E value \in Records : Push(value)
    \/ Pop
    \/ \E len \in IdxArgs : Truncate(len)

SpecLog == InitLog /\ [][NextLog]_vars

\* ------------------------------------------------------------------ claims
\* is_empty(): self.len() == 0
AosIsEmpty(a) == AosLen(a) = 0
SoaIsEmpty(s) == SoaLen(s) = 0

\* The references 0 .. n-1, in index order.
RefsUpTo(n) == [k \in 1..n |-> k - 1]

C2_BulkLayoutEquivalence ==
    op = "from_iter" =>
        LET in == Unwrap(arg)
        IN  /\ AosLen(aos) = Len(in)
            /\ SoaLen(soa) = Len(in)
            /\ \A i \in 0..(Len(in) - 1) :
                  /\ IsSome(AosGet(aos, i))
                  /\ IsSome(SoaGet(soa, i))
                  /\ \A f \in FieldSet :
                        /\ AosRefField(aos, Unwrap(AosGet(aos, i)), f) = in[i + 1][f]
                        /\ SoaRefField(soa, Unwrap(SoaGet(soa, i)), f)
                              = Some(in[i + 1][f])

\* Both collections were built from an input of MaxLen Records, the first
\* and the last of them different.
C2_Witness ==
    /\ op = "from_iter"
    /\ Len(Unwrap(arg)) = MaxLen
    /\ Unwrap(arg)[1] # Unwrap(arg)[MaxLen]
    /\ AosLen(aos) = MaxLen /\ SoaLen(soa) = MaxLen

\* What C3 says of one iterator `it` over a collection of length n, of which
\* gets[i] is what get(i) returns, after itSteps calls of next().
IterComplete(it, n, gets) ==
    /\ itSteps <= n =>
          /\ it.out = RefsUpTo(itSteps)
          /\ \A k \in 1..itSteps : Some(it.out[k]) = gets[k - 1]
          /\ itSteps > 0 => it.ret = gets[itSteps - 1] /\ IsSome(it.ret)
    /\ itSteps = n + 1 =>
          /\ it.out = RefsUpTo(n)
          /\ it.ret = None

\* C3. Iterator completeness: over a collection of length N (either layout)
\* the iterator yields exactly N references, the k-th the one get(k) returns,
\* and the (N+1)-th step reports exhaustion.
C3_IteratorCompleteness ==
    itLive =>
        /\ IterComplete(aosIt, AosLen(aos), [i \in IdxArgs |-> AosGet(aos, i)])
        /\ IterComplete(soaIt, SoaLen(soa), [i \in IdxArgs |-> SoaGet(soa, i)])

\* The iterators over two collections of MaxLen elements have just reported
\* exhaustion, after yielding MaxLen references each.
C3_Witness ==
    /\ itLive /\ op = "next"
    /\ AosLen(aos) = MaxLen /\ SoaLen(soa) = MaxLen
    /\ itSteps = MaxLen + 1
    /\ Len(aosIt.out) = MaxLen /\ Len(soaIt.out) = MaxLen
    /\ aosRet = None /\ soaRet = None

\* An iterator that has taken `steps` steps has reported exhaustion at the
\* last of them.
Exhausted(steps, it) == steps > 0 /\ it.ret = None

\* C4. Iterator exhaustion is terminal: once a step of an iterator has
\* reported exhaustion, every later step on the same iterator yields nothing.
C4_ExhaustionTerminal ==
    [][(itLive /\ itLive') =>
          /\ Exhausted(itSteps, aosIt) => Exhausted(itSteps', aosIt')
          /\ Exhausted(itSteps, soaIt) => Exhausted(itSteps', soaIt')]_vars

\* C5. Bounds reporting: in every reachable state of either layout get(idx)
\* and get_mut(idx) return a reference if and only if idx < len(), the
\* reference addresses index idx (every field accessor reads slot idx), and
\* the last get or get_mut made returned just that.
C5_BoundsReporting ==
    /\ \A idx \in IdxArgs :
          /\ IsSome(AosGet(aos, idx)) <=> idx < AosLen(aos)
          /\ IsSome(AosGetMut(aos, idx)) <=> idx < AosLen(aos)
          /\ IsSome(SoaGet(soa, idx)) <=> idx < SoaLen(soa)
          /\ IsSome(SoaGetMut(soa, idx)) <=> idx < SoaLen(soa)
          /\ IsSome(AosGet(aos, idx)) => AosGet(aos, idx) = Some(idx)
          /\ IsSome(AosGetMut(aos, idx)) => AosGetMut(aos, idx) = Some(idx)
          /\ IsSome(SoaGet(soa, idx)) =>
                /\ SoaGet(soa, idx) = Some(idx)
                /\ \A f \in FieldSet :
                      SoaRefField(soa, Unwrap(SoaGet(soa, idx)), f)
                          = Some(soa[f].items[idx + 1])
          /\ IsSome(SoaGetMut(soa, idx)) =>
                /\ SoaGetMut(soa, idx) = Some(idx)
                /\ \A f \in FieldSet :
                      IsSome(SoaRefField(soa, Unwrap(SoaGetMut(soa, idx)), f))
    /\ AosGet(aos, AosLen(aos)) = None /\ AosGetMut(aos, AosLen(aos)) = None
    /\ SoaGet(soa, SoaLen(soa)) = None /\ SoaGetMut(soa, SoaLen(soa)) = None
    /\ op \in {"get", "get_mut"} =>
          /\ aosRet = (IF arg[1] < AosLen(aos) THEN Some(arg[1]) ELSE None)
          /\ soaRet = (IF arg[1] < SoaLen(soa) THEN Some(arg[1]) ELSE None)

\* get(len()) has just reported absence on two collections of MaxLen
\* elements.
C5_Witness ==
    /\ op = "get" /\ arg = <<MaxLen>>
    /\ AosLen(aos) = MaxLen /\ SoaLen(soa) = MaxLen
    /\ aosRet = None /\ soaRet = None

\* C6. Push/pop inverse: in any reachable state of either layout push(r)
\* followed at once by pop() returns r, and leaves the length and the
\* contents (of every field buffer, for SoA) as they were before the push;
\* and a pop() made right after a push(r) returned r.
C6_PushPopInverse ==
    /\ \A r \in Records :
          LET aosPopped == AosPop(AosPush(aos, r))
              soaPopped == SoaPop(SoaPush(soa, r))
          IN  /\ aosPopped.ret = Some(r)
              /\ aosPopped.aos.items = aos.items
              /\ AosLen(aosPopped.aos) = AosLen(aos)
              /\ soaPopped.ret = Some(r)
              /\ ~soaPopped.panic
              /\ SoaLen(soaPopped.soa) = SoaLen(soa)
              /\ \A f \in FieldSet : soaPopped.soa[f].items = soa[f].items
    /\ (op = "pop" /\ arg # <<>>) =>
          /\ aosRet = arg /\ soaRet = arg
          /\ AosLen(aos) = before[1] - 1 /\ SoaLen(soa) = before[2] - 1

\* A pop() has just returned the Record pushed right before it onto two
\* collections that held MaxLen - 1 elements.
C6_Witness ==
    /\ op = "pop" /\ arg # <<>>
    /\ before = <<MaxLen, MaxLen>>
    /\ aosRet = arg /\ soaRet = arg
    /\ AosLen(aos) = MaxLen - 1 /\ SoaLen(soa) = MaxLen - 1

\* C7. Length/capacity: right after with_capacity(n), capacity() >= n and
\* len() == 0; and len() <= capacity() in every reachable state of either
\* layout (for SoA as read from the first field's buffer).
C7_LenCapacity ==
    /\ op = "with_capacity" =>
          /\ AosCapacity(aos) >= arg[1] /\ AosLen(aos) = 0
          /\ SoaCapacity(soa) >= arg[1] /\ SoaLen(soa) = 0
    /\ AosLen(aos) <= AosCapacity(aos)
    /\ SoaLen(soa) <= SoaCapacity(soa)

\* A push has just filled the two collections to MaxLen elements, past the
\* capacity they were made with.
C7_Witness ==
    /\ op = "push"
    /\ AosLen(aos) = MaxLen /\ SoaLen(soa) = MaxLen
    /\ AosCapacity(aos) = MinNonZeroCap(RecordSize)
    /\ SoaCapacity(soa) = MinNonZeroCap(fieldSize[Fields[1]])

\* C8. Truncate: a second truncate(k) after a truncate(k) changes nothing;
\* truncate(len()) changes nothing; truncate(0) and clear() make is_empty()
\* true.
C8_TruncateIdempotent ==
    /\ \A k \in IdxArgs :
          /\ AosTruncate(AosTruncate(aos, k), k) = AosTruncate(aos, k)
          /\ SoaTruncate(SoaTruncate(soa, k), k) = SoaTruncate(soa, k)
    /\ AosTruncate(aos, AosLen(aos)) = aos
    /\ SoaTruncate(soa, SoaLen(soa)) = soa
    /\ AosIsEmpty(AosTruncate(aos, 0))
    /\ SoaIsEmpty(SoaTruncate(soa, 0))
    /\ op = "truncate" =>
          /\ AosTruncate(aos, arg[1]) = aos
          /\ SoaTruncate(soa, arg[1]) = soa
          /\ arg[1] = 0 => AosIsEmpty(aos) /\ SoaIsEmpty(soa)
    /\ op = "clear" => AosIsEmpty(aos) /\ SoaIsEmpty(soa)

\* truncate(1) has just shortened two collections of MaxLen elements.
C8_Witness ==
    /\ op = "truncate" /\ arg = <<1>>
    /\ before = <<MaxLen, MaxLen>>
    /\ AosLen(aos) = 1 /\ SoaLen(soa) = 1

\* What C9 says of one pop() step.
PopReports ==
    /\ AosLen(aos) = 0 => aosRet' = None /\ aos' = aos
    /\ AosLen(aos) > 0 =>
          /\ aosRet' = Some(aos.items[AosLen(aos)])
          /\ AosLen(aos') = AosLen(aos) - 1
    /\ SoaLen(soa) = 0 => soaRet' = None /\ soa' = soa
    /\ SoaLen(soa) > 0 =>
          /\ soaRet' = Some([f \in FieldSet |-> soa[f].items[SoaLen(soa)]])
          /\ SoaLen(soa') = SoaLen(soa) - 1
    /\ \/ \A f \in FieldSet : soa'[f] = soa[f]
       \/ \A f \in FieldSet :
             /\ Len(soa[f].items) > 0
             /\ soa'[f].items = SubSeq(soa[f].items, 1, Len(soa[f].items) - 1)
    /\ ~panicked'

\* C9. pop() on an empty collection returns absence and changes nothing;
\* otherwise it returns the element at index len-1 and len() decreases by
\* one; a SoA pop() removes the last slot of every field buffer or of none.
C9_PopReport == [][op' = "pop" => PopReports]_vars

\* pop() has just reported absence on two empty collections whose buffers
\* are allocated.
C9_Witness ==
    /\ op = "pop"
    /\ before = <<0, 0>>
    /\ aosRet = None /\ soaRet = None
    /\ AosLen(aos) = 0 /\ SoaLen(soa) = 0
    /\ AosCapacity(aos) > 0 /\ SoaCapacity(soa) > 0

\* What C10 says of one push(r) step.
PushAppends ==
    LET r == arg'[1]
        n == AosLen(aos)
        m == SoaLen(soa)
    IN  /\ AosLen(aos') = n + 1
        /\ AosGet(aos', n) = Some(n)
        /\ \A f \in FieldSet : AosRefField(aos', n, f) = r[f]
        /\ \A i \in 0..(n - 1) : \A f \in FieldSet :
              AosRefField(aos', i, f) = AosRefField(aos, i, f)
        /\ SoaLen(soa') = m + 1
        /\ SoaGet(soa', m) = Some(m)
        /\ \A f \in FieldSet : SoaRefField(soa', m, f) = Some(r[f])
        /\ \A i \in 0..(m - 1) : \A f \in FieldSet :
              SoaRefField(soa', i, f) = SoaRefField(soa, i, f)

\* C10. push(r) with len() == n gives len() == n+1, get(n) reading back
\* every field of r, and every field of the elements 0..n-1 unchanged, in
\* both layouts.
C10_PushAppends == [][op' = "push" => PushAppends]_vars

\* A push has just appended a Record to two collections that held MaxLen - 1
\* elements, the first of them different from it.
C10_Witness ==
    /\ op = "push"
    /\ before = <<MaxLen - 1, MaxLen - 1>>
    /\ AosLen(aos) = MaxLen /\ SoaLen(soa) = MaxLen
    /\ aos.items[1] # arg[1]
    /\ \E f \in FieldSet : arg[1][f] # arg[1][Fields[1]]

\* What C11 says of one truncate(k) step.
TruncateKeepsPrefix ==
    LET k == arg'[1]
    IN  /\ k < AosLen(aos) =>
              /\ AosLen(aos') = k
              /\ \A i \in 0..(k - 1) : \A f \in FieldSet :
                    AosRefField(aos', i, f) = AosRefField(aos, i, f)
        /\ k >= AosLen(aos) => aos'.items = aos.items
        /\ k < SoaLen(soa) =>
              /\ SoaLen(soa') = k
              /\ \A f \in FieldSet : Len(soa'[f].items) = k
              /\ \A i \in 0..(k - 1) : \A f \in FieldSet :
                    SoaRefField(soa', i, f) = SoaRefField(soa, i, f)
        /\ k >= SoaLen(soa) =>
              \A f \in FieldSet : soa'[f].items = soa[f].items

\* C11. truncate(k) with k < len() leaves len() == k and every field of the
\* elements 0..k-1 unchanged; with k >= len() it changes neither length nor
\* contents; in both layouts.
C11_TruncateKeepsPrefix == [][op' = "truncate" => TruncateKeepsPrefix]_vars

\* truncate(1) has just cut two collections of MaxLen elements down to a
\* first element whose fields are not all alike.
C11_Witness ==
    /\ op = "truncate" /\ arg = <<1>>
    /\ before = <<MaxLen, MaxLen>>
    /\ AosLen(aos) = 1 /\ SoaLen(soa) = 1
    /\ \E f \in FieldSet : aos.items[1][f] # aos.items[1][Fields[1]]
    /\ \A f \in FieldSet : SoaRefField(soa, 0, f) = Some(aos.items[1][f])

\* What C12 says of one step that is a call on the existing collections.
CapacityKept ==
    /\ AosCapacity(aos') >= AosCapacity(aos)
    /\ SoaCapacity(soa') >= SoaCapacity(soa)
    /\ op' \in {"truncate", "clear", "pop"} =>
          /\ AosCapacity(aos') = AosCapacity(aos)
          /\ SoaCapacity(soa') = SoaCapacity(soa)
    /\ op' = "reserve" =>
          /\ AosCapacity(aos') >= AosLen(aos) + arg'[1]
          /\ SoaCapacity(soa') >= SoaLen(soa) + arg'[1]
          /\ aos'.items = aos.items
          /\ \A f \in FieldSet : soa'[f].items = soa[f].items

\* C12. Capacity never shrinks: across push, pop, truncate, clear and reserve
\* (and every other call on one collection) capacity() is non-decreasing;
\* truncate, clear and pop leave it unchanged; after reserve(a),
\* capacity() >= len() + a with len() and the contents unchanged.
C12_CapacityNeverShrinks == [][op' \notin Constructors => CapacityKept]_vars

\* reserve(MaxArg) has just grown the capacity of two full collections.
C12_Witness ==
    /\ op = "reserve" /\ arg = <<MaxArg>>
    /\ before[1] > 0 /\ before[1] = capBefore[1]
    /\ before[2] > 0 /\ before[2] = capBefore[2]
    /\ AosCapacity(aos) > capBefore[1]
    /\ SoaCapacity(soa) > capBefore[2]
    /\ AosLen(aos) = before[1] /\ SoaLen(soa) = before[2]

\* What C16 says of one step that writes v to field f through get_mut(i).
WriteIsLocal ==
    LET i == arg'[1]
        f == arg'[2]
        v == arg'[3]
    IN  /\ IsSome(aosRet') <=> i < AosLen(aos)
        /\ IsSome(soaRet') <=> i < SoaLen(soa)
        /\ ~IsSome(aosRet') => aos' = aos
        /\ ~IsSome(soaRet') => soa' = soa
        /\ IsSome(aosRet') =>
              /\ IsSome(AosGet(aos', i))
              /\ AosRefField(aos', Unwrap(AosGet(aos', i)), f) = v
              /\ AosLen(aos') = AosLen(aos)
              /\ AosCapacity(aos') = AosCapacity(aos)
              /\ \A j \in 0..(AosLen(aos) - 1) : \A g \in FieldSet :
                    (j # i \/ g # f) =>
                        AosRefField(aos', j, g) = AosRefField(aos, j, g)
        /\ IsSome(soaRet') =>
              /\ IsSome(SoaGet(soa', i))
              /\ SoaRefField(soa', Unwrap(SoaGet(soa', i)), f) = Some(v)
              /\ SoaLen(soa') = SoaLen(soa)
              /\ SoaCapacity(soa') = SoaCapacity(soa)
              /\ \A g \in FieldSet \ {f} : soa'[g] = soa[g]
              /\ soa'[f].cap = soa[f].cap
              /\ Len(soa'[f].items) = Len(soa[f].items)
              /\ \A j \in 0..(SoaLen(soa) - 1) :
                    j # i => SoaRefField(soa', j, f) = SoaRefField(soa, j, f)
        /\ ~panicked'

\* C16. Writing v to field f through the reference get_mut(i) returns makes
\* get(i) read v for f and leaves every other field of element i, every
\* field of every other element, len() and capacity() unchanged; in SoA the
\* write lands in slot i of field f's own buffer and in no other buffer.
C16_WriteIsLocal == [][op' = "write" => WriteIsLocal]_vars

\* A write has just changed one field of the last of MaxLen elements to a
\* value that another field of that element and the same field of the first
\* element do not hold.
C16_Witness ==
    /\ op = "write" /\ IsSome(aosRet) /\ IsSome(soaRet)
    /\ AosLen(aos) = MaxLen /\ SoaLen(soa) = MaxLen
    /\ arg[1] = MaxLen - 1
    /\ AosRefField(aos, arg[1], arg[2]) = arg[3]
    /\ SoaRefField(soa, arg[1], arg[2]) = Some(arg[3])
    /\ \E g \in FieldSet \ {arg[2]} : soa[g].items[MaxLen] # arg[3]
    /\ soa[arg[2]].items[1] # arg[3]

\* C17. Iterator cursor invariant: the cursor of an iterator is the next index
\* to yield: it equals the number of references yielded so far (so it is
\* incremented only by a step that yields one) and never exceeds the
\* collection's length.
C17_CursorInvariant ==
    itLive =>
        /\ aosIt.index = Len(aosIt.out)
        /\ aosIt.index <= AosLen(aos)
        /\ soaIt.index = Len(soaIt.out)
        /\ soaIt.index <= SoaLen(soa)

\* C19. Layout equivalence under arbitrary operations: after the same calls
\* on an AoS and a SoA collection, len(), is_empty(), the result of the last
\* call (pop, get, get_mut, next), the result a pop() would give, presence
\* from get/get_mut for every index, every field of every index and the
\* iterators' progress are the same in both.
C19_LayoutEquivalence ==
    /\ AosLen(aos) = SoaLen(soa)
    /\ AosIsEmpty(aos) <=> SoaIsEmpty(soa)
    /\ aosRet = soaRet
    /\ AosPop(aos).ret = SoaPop(soa).ret
    /\ \A idx \in IdxArgs :
          /\ AosGet(aos, idx) = SoaGet(soa, idx)
          /\ AosGetMut(aos, idx) = SoaGetMut(soa, idx)
          /\ IsSome(AosGet(aos, idx)) =>
                \A f \in FieldSet :
                    Some(AosRefField(aos, Unwrap(AosGet(aos, idx)), f))
                        = SoaRefField(soa, Unwrap(SoaGet(soa, idx)), f)
    /\ aosIt = soaIt

\* pop() has just returned the same Record, with fields that are not all
\* alike, from both collections, and MaxLen - 1 elements are left in each.
C19_Witness ==
    /\ op = "pop" /\ IsSome(aosRet) /\ aosRet = soaRet
    /\ \E f \in FieldSet : Unwrap(aosRet)[f] # Unwrap(aosRet)[Fields[1]]
    /\ MaxLen > 1
    /\ AosLen(aos) = MaxLen - 1 /\ SoaLen(soa) = MaxLen - 1
    /\ \E f \in FieldSet : aos.items[1][f] # aos.items[1][Fields[1]]

C14_SoaCapacityUniform ==
    \A f \in FieldSet : soa[f].cap = SoaCapacity(soa)

\* C15. Growth failure is atomic for SoA: when storage growth fails while
\* push or reserve is updating the field buffers one after another, the
\* field buffers do not end with different lengths: the collection is in
\* its prior state, or the whole call took effect on every buffer.
C15_GrowthFailureAtomic ==
    op \in {"push_panic", "reserve_panic"} =>
        /\ \A f \in FieldSet : Len(soa[f].items) = SoaLen(soa)
        /\ SoaLen(soa) \in {before[2], before[2] + 1}

\* C18 as stated. AoS element identity: after any sequence of push, pop and
\* truncate in which no element was altered through a mutable reference, the
\* element at every index i < len() is the Record passed to the i-th
\* successful push (counting the pushes from zero, as the indices are).
C18_ElementIsIthPush ==
    pushLog # None =>
        \A i \in 0..(AosLen(aos) - 1) :
            /\ i < Len(Unwrap(pushLog))
            /\ aos.items[i + 1] = Unwrap(pushLog)[i + 1].rec

\* The last successful push made when len() was i, if there was one.
LatestPushAt(i) ==
    LET log == Unwrap(pushLog)
        made == {k \in 1..Len(log) : log[k].at = i}
    IN  IF made = {} THEN None
        ELSE Some(log[CHOOSE k \in made : \A j \in made : j <= k].rec)

\* C18, amended. AoS element identity: after any sequence of push, pop and
\* truncate in which no element was altered through a mutable reference, the
\* element at every index i < len() is the Record passed to the most recent
\* successful push that was made when len() was i.
C18_ElementIsLatestPushAt ==
    pushLog # None =>
        \A i \in 0..(AosLen(aos) - 1) :
            LatestPushAt(i) = Some(aos.items[i + 1])

\* Two pushes were made at len() 0 with different Records (a pop or a
\* truncate between them), and the collection holds one element.
C18_Witness ==
    /\ pushLog # None
    /\ Len(Unwrap(pushLog)) = 2
    /\ Unwrap(pushLog)[1].at = 0
    /\ Unwrap(pushLog)[2].at = 0
    /\ Unwrap(pushLog)[1].rec # Unwrap(pushLog)[2].rec
    /\ AosLen(aos) = 1

====
